---- MODULE Spec2Model ----
(***************************************************************************)
(* ImaraFund matching service: the IntelligentMatcher scoring functions    *)
(* (app/services/intelligent_matcher.py), the find_matches operation, the  *)
(* endpoints that feed and call it (app/api/endpoints.py) with their       *)
(* response schemas (app/schemas.py), the grant loader                     *)
(* (scripts/load_grants.py) and the recommendation service                 *)
(* (app/services/gemini_service.py).                                       *)
(*                                                                         *)
(* Text is modelled by TLA+ strings, on which Len, SubSeq, Tail and \o act *)
(* character by character.  A nullable column is a set: {} is None and {v} *)
(* holds the value v.  A float is a fixed-point integer with Scale units   *)
(* per 1.0, so that 40.0 is F(40) and round(x, 1) is a real rounding.      *)
(* An amount of money is a tagged value: Num(n) is the whole non-negative  *)
(* number n and Str(s) is the text s, which a column read from a file can  *)
(* hold in place of a number.                                              *)
(***************************************************************************)
EXTENDS Integers, Sequences, FiniteSets, TLC

(***************************************************************************)
(* Optional values and Python's "x or default".                            *)
(***************************************************************************)
None == {}

Some(v) == {v}

Value(opt) == CHOOSE v \in opt : TRUE

\* str(x or ''): None and the empty text both give ''.
TextOr(opt, default) ==
    IF opt = None THEN default
    ELSE IF Value(opt) = "" THEN default ELSE Value(opt)

Num(n) == [ num |-> n ]

Str(s) == [ text |-> s ]

IsNumber(v) == "num" \in DOMAIN v

\* x or 0.0 on an amount: None, 0 and the empty text are falsy and give the
\* default; any other value, text included, is kept.
NumOr(opt, default) ==
    IF opt = None THEN default
    ELSE IF Value(opt) \in { Num(0), Str("") } THEN default ELSE Value(opt)

\* What a call gives back when it raises instead of returning.
Raise(exception) == [ raised |-> exception ]

Raises(result) == "raised" \in DOMAIN result

(***************************************************************************)
(* Python string operations used by the matcher.                           *)
(***************************************************************************)
UpperChars == "ABCDEFGHIJKLMNOPQRSTUVWXYZ"

LowerChars == "abcdefghijklmnopqrstuvwxyz"

Whitespace == {" ", "\t", "\n"}

CharAt(s, i) == SubSeq(s, i, i)

\* The lower-case letter of every upper-case letter.
LowerOf == [ c \in { CharAt(UpperChars, k) : k \in 1..Len(UpperChars) } |->
             CharAt(LowerChars, CHOOSE k \in 1..Len(UpperChars) : CharAt(UpperChars, k) = c) ]

LowerChar(c) == IF c \in DOMAIN LowerOf THEN LowerOf[c] ELSE c

\* str.lower()
RECURSIVE lower(_)
lower(s) == IF s = "" THEN "" ELSE LowerChar(CharAt(s, 1)) \o lower(Tail(s))

RECURSIVE lstrip(_)
lstrip(s) ==
    IF s # "" /\ CharAt(s, 1) \in Whitespace THEN lstrip(Tail(s)) ELSE s

RECURSIVE rstrip(_)
rstrip(s) ==
    IF s # "" /\ CharAt(s, Len(s)) \in Whitespace
    THEN rstrip(SubSeq(s, 1, Len(s) - 1))
    ELSE s

\* str.strip()
strip(s) == rstrip(lstrip(s))

\* sub in s
Contains(sub, s) ==
    \E i \in 1..(Len(s) - Len(sub) + 1) : SubSeq(s, i, i + Len(sub) - 1) = sub

\* Length of the leading run of non-whitespace characters of s.
RECURSIVE WordLen(_)
WordLen(s) ==
    IF s = "" \/ CharAt(s, 1) \in Whitespace THEN 0 ELSE 1 + WordLen(Tail(s))

\* str.split(): the maximal whitespace-free words of s, in order.
RECURSIVE split(_)
split(s) ==
    LET t == lstrip(s)
        n == WordLen(t)
    IN  IF t = "" THEN << >>
        ELSE << SubSeq(t, 1, n) >> \o split(SubSeq(t, n + 1, Len(t)))

\* str(x or '').lower() without the strip().
Norm_unstripped(opt) == lower(TextOr(opt, ""))

\* str(x or '').lower().strip()
Norm(opt) == strip(lower(TextOr(opt, "")))

(***************************************************************************)
(* Fixed-point floats.                                                     *)
(***************************************************************************)
Scale == 10 * 10

F(n) == n * Scale

\* round(x, 1): to the nearest tenth, ties to even.
round1(x) ==
    LET step == Scale \div 10
        q == x \div step
        r == x % step
    IN  IF 2 * r > step \/ (2 * r = step /\ q % 2 = 1)
        THEN (q + 1) * step
        ELSE q * step

min(a, b) == IF a <= b THEN a ELSE b

\* A quotient need / available with available > 0, kept as an exact fraction.
Ratio(need, available) == << need, available >>

\* p/q <= r, and r <= p/q, for a fraction r with positive denominator.
ConstLeqRatio(p, q, r) == p * r[2] <= q * r[1]

RatioLeqConst(r, p, q) == q * r[1] <= p * r[2]

(***************************************************************************)
(* IntelligentMatcher: the four sub-scores and their sum.                  *)
(***************************************************************************)
africa_countries ==
    { "nigeria", "kenya", "south africa", "ghana", "uganda", "egypt",
      "tanzania", "rwanda", "ethiopia", "senegal", "botswana", "zambia",
      "zimbabwe", "morocco", "tunisia", "algeria", "libya", "cameroon",
      "ivory coast", "mali", "burkina faso", "niger", "madagascar" }

\* _score_geography with the regional rule tried before the country match.
_score_geography_regional_first(company, grant) ==
    LET company_country == Norm(company.nationality)
        grant_scope == Norm(grant.geographic_scope)
        grant_country == Norm(grant.country)
    IN  IF Contains("global", grant_scope) THEN F(40)
        ELSE IF company_country \in africa_countries
                /\ (Contains("africa", grant_scope) \/ Contains("african", grant_scope))
             THEN F(35)
        ELSE IF Contains(company_country, grant_country)
                \/ Contains(company_country, grant_scope) THEN F(40)
        ELSE F(0)

\* _score_geography with the substring test guarded against an empty
\* nationality.
_score_geography_nonempty(company, grant) ==
    LET company_country == Norm(company.nationality)
        grant_scope == Norm(grant.geographic_scope)
        grant_country == Norm(grant.country)
    IN  IF Contains("global", grant_scope) THEN F(40)
        ELSE IF company_country # ""
                /\ (Contains(company_country, grant_country)
                    \/ Contains(company_country, grant_scope)) THEN F(40)
        ELSE IF company_country \in africa_countries
                /\ (Contains("africa", grant_scope) \/ Contains("african", grant_scope))
             THEN F(35)
        ELSE F(0)

_score_geography(company, grant) ==
    LET company_country == Norm(company.nationality)
        grant_scope == Norm(grant.geographic_scope)
        grant_country == Norm(grant.country)
    IN  IF Contains("global", grant_scope) THEN F(40)
        ELSE IF Contains(company_country, grant_country)
                \/ Contains(company_country, grant_scope) THEN F(40)
        ELSE IF company_country \in africa_countries
                /\ (Contains("africa", grant_scope) \/ Contains("african", grant_scope))
             THEN F(35)
        ELSE F(0)

\* _score_sector reading the sectors text as find_matches displays it.
_score_sector_on_displayed(company, grant) ==
    LET company_sector == Norm(company.sector)
        target_sectors == strip(lower(TextOr(grant.target_sectors, "General")))
        sector_words == split(company_sector)
    IN  IF \E keyword \in {"all", "general", "any"} : Contains(keyword, target_sectors)
        THEN F(25)
        ELSE IF Contains(company_sector, target_sectors) THEN F(30)
        ELSE IF \E k \in 1..Len(sector_words) :
                    Len(sector_words[k]) > 3 /\ Contains(sector_words[k], target_sectors)
             THEN F(20)
        ELSE F(10)

\* _score_sector with the partial match tried before the exact match.
_score_sector_partial_first(company, grant) ==
    LET company_sector == Norm(company.sector)
        target_sectors == Norm(grant.target_sectors)
        sector_words == split(company_sector)
    IN  IF \E keyword \in {"all", "general", "any"} : Contains(keyword, target_sectors)
        THEN F(25)
        ELSE IF \E k \in 1..Len(sector_words) :
                    Len(sector_words[k]) > 3 /\ Contains(sector_words[k], target_sectors)
             THEN F(20)
        ELSE IF Contains(company_sector, target_sectors) THEN F(30)
        ELSE F(10)

\* _score_sector with the exact match tried before the catch-all keywords.
_score_sector_exact_first(company, grant) ==
    LET company_sector == Norm(company.sector)
        target_sectors == Norm(grant.target_sectors)
        sector_words == split(company_sector)
    IN  IF Contains(company_sector, target_sectors) THEN F(30)
        ELSE IF \E keyword \in {"all", "general", "any"} : Contains(keyword, target_sectors)
             THEN F(25)
        ELSE IF \E k \in 1..Len(sector_words) :
                    Len(sector_words[k]) > 3 /\ Contains(sector_words[k], target_sectors)
             THEN F(20)
        ELSE F(10)

_score_sector(company, grant) ==
    LET company_sector == Norm(company.sector)
        target_sectors == Norm(grant.target_sectors)
        sector_words == split(company_sector)
    IN  IF \E keyword \in {"all", "general", "any"} : Contains(keyword, target_sectors)
        THEN F(25)
        ELSE IF Contains(company_sector, target_sectors) THEN F(30)
        ELSE IF \E k \in 1..Len(sector_words) :
                    Len(sector_words[k]) > 3 /\ Contains(sector_words[k], target_sectors)
             THEN F(20)
        ELSE F(10)

\* _score_funding_amount with the ends of the two ranges left out.
_score_funding_amount_open(company, grant) ==
    LET need == NumOr(company.funding_need_usd, Num(0))
        available == NumOr(grant.estimated_value_amount, Num(0))
        ratio == Ratio(need.num, available.num)
    IN  IF available = Num(0) \/ need = Num(0) THEN F(15)
        ELSE IF ~RatioLeqConst(ratio, 1, 10) /\ ~ConstLeqRatio(2, 1, ratio) THEN F(20)
        ELSE IF ~RatioLeqConst(ratio, 1, 20) /\ ~ConstLeqRatio(5, 1, ratio) THEN F(15)
        ELSE F(8)

_score_funding_amount(company, grant) ==
    LET need == NumOr(company.funding_need_usd, Num(0))
        available == NumOr(grant.estimated_value_amount, Num(0))
        ratio == Ratio(need.num, available.num)
    IN  IF available = Num(0) \/ need = Num(0) THEN F(15)
        ELSE IF ConstLeqRatio(1, 10, ratio) /\ RatioLeqConst(ratio, 2, 1) THEN F(20)
        ELSE IF ConstLeqRatio(1, 20, ratio) /\ RatioLeqConst(ratio, 5, 1) THEN F(15)
        ELSE F(8)

\* Line 139: need / available raises TypeError unless both operands are
\* numbers; the line is reached when neither operand equals 0.
_score_funding_amount_raises(company, grant) ==
    LET need == NumOr(company.funding_need_usd, Num(0))
        available == NumOr(grant.estimated_value_amount, Num(0))
    IN  /\ ~(available = Num(0) \/ need = Num(0))
        /\ ~(IsNumber(need) /\ IsNumber(available))

\* _score_business_stage with the unknown stage scored 0.
_score_business_stage_zero(company, grant) ==
    LET stage == Norm(company.business_stage)
    IN  IF stage \in {"startup", "early growth"} THEN F(10)
        ELSE IF stage = "idea" THEN F(8)
        ELSE IF stage \in {"growth", "scale-up", "expansion"} THEN F(9)
        ELSE F(0)

\* _score_business_stage with the stage compared as stored, neither
\* lower-cased nor trimmed.
_score_business_stage_raw(company, grant) ==
    LET stage == TextOr(company.business_stage, "")
    IN  IF stage \in {"startup", "early growth"} THEN F(10)
        ELSE IF stage = "idea" THEN F(8)
        ELSE IF stage \in {"growth", "scale-up", "expansion"} THEN F(9)
        ELSE F(7)

_score_business_stage(company, grant) ==
    LET stage == Norm(company.business_stage)
    IN  IF stage \in {"startup", "early growth"} THEN F(10)
        ELSE IF stage = "idea" THEN F(8)
        ELSE IF stage \in {"growth", "scale-up", "expansion"} THEN F(9)
        ELSE F(7)

\* _calculate_match_score with the stage bonus counted twice in the total.
_calculate_match_score_double(company, grant) ==
    LET geo_score == _score_geography(company, grant)
        sector_score == _score_sector(company, grant)
        amount_score == _score_funding_amount(company, grant)
        stage_score == _score_business_stage(company, grant)
        score == F(0) + geo_score + sector_score + amount_score + stage_score + stage_score
    IN  IF _score_funding_amount_raises(company, grant) THEN Raise("TypeError")
        ELSE
        [ score |-> min(F(100), score),
          breakdown |-> [ geographic |-> geo_score,
                          sector |-> sector_score,
                          amount_fit |-> amount_score,
                          stage |-> stage_score ] ]

\* Returns the pair (score, breakdown) as a record, or raises what
\* _score_funding_amount raises.
_calculate_match_score(company, grant) ==
    LET geo_score == _score_geography(company, grant)
        sector_score == _score_sector(company, grant)
        amount_score == _score_funding_amount(company, grant)
        stage_score == _score_business_stage(company, grant)
        score == F(0) + geo_score + sector_score + amount_score + stage_score
    IN  IF _score_funding_amount_raises(company, grant) THEN Raise("TypeError")
        ELSE
        [ score |-> min(F(100), score),
          breakdown |-> [ geographic |-> geo_score,
                          sector |-> sector_score,
                          amount_fit |-> amount_score,
                          stage |-> stage_score ] ]

(***************************************************************************)
(* Records.  Company and Grant carry the columns the matcher reads; the    *)
(* columns a match displays are set by Displayed.                          *)
(***************************************************************************)
Company(nationality, sector, business_stage, funding_need_usd) ==
    [ nationality |-> nationality, sector |-> sector,
      business_stage |-> business_stage, funding_need_usd |-> funding_need_usd,
      company_name |-> Some("Shamba Ltd"), founder_age |-> None ]

Grant(geographic_scope, country, target_sectors, estimated_value_amount) ==
    [ geographic_scope |-> geographic_scope, country |-> country,
      target_sectors |-> target_sectors,
      estimated_value_amount |-> estimated_value_amount,
      program_name |-> Some("Agri Fund"), institution_name |-> Some("AfDB"),
      website_url |-> None, data_source_url |-> None,
      repayment_required |-> Some(FALSE) ]

\* The grant with its displayed columns set.
Displayed(grant, institution_name, website_url, data_source_url, repayment_required) ==
    [ grant EXCEPT !.institution_name = institution_name,
                   !.website_url = website_url,
                   !.data_source_url = data_source_url,
                   !.repayment_required = repayment_required ]

(***************************************************************************)
(* Inputs of the scoring functions.                                        *)
(***************************************************************************)
Nationalities == { None, Some("Kenya"), Some(" MALI "), Some("France") }

Scopes == { None, Some("Global"), Some("Africa-wide"), Some("Kenya, Uganda") }

Countries == { None, Some("Somalia") }

Sectors == { None, Some("Agriculture"), Some("technology"), Some("agri tech"),
             Some("art tech") }

TargetSectors == { None, Some("agriculture, agritech"),
                   Some("General support for all sectors"),
                   Some("smart farming"), Some("Agriculture (any scale)") }

Stages == { None, Some("Startup"), Some("early growth"), Some(" Idea "),
            Some("growth"), Some("scale-up"), Some("expansion"), Some("mature") }

Needs == { None, Some(Num(0)), Some(Num(1)), Some(Num(2)), Some(Num(4)),
           Some(Num(40)), Some(Num(80)), Some(Num(81)), Some(Num(200)),
           Some(Num(201)) }

Availables == { None, Some(Num(0)), Some(Num(40)), Some(Str("N/A")) }

Companies ==
    { Company(n, s, b, f) : n \in Nationalities, s \in Sectors, b \in Stages, f \in Needs }

Grants ==
    { Grant(g, c, t, a) : g \in Scopes, c \in Countries, t \in TargetSectors,
                          a \in Availables }

(***************************************************************************)
(* Rows of the two tables.  A row's id is its primary key; the companies   *)
(* are those the company endpoint accepts (non-empty text, a positive      *)
(* funding need).  GrantRows are rows the grant endpoint accepts: a name,  *)
(* an institution that may be empty, a repayment flag.  LoadedGrantRows    *)
(* are rows load_grants.py stores from a file that lacks the optional      *)
(* columns: every cell it does not find is stored as NULL.                 *)
(***************************************************************************)
CompanyRows ==
    { Company(Some("Kenya"), Some("Agriculture"), Some("Startup"), Some(Num(50000))),
      Company(Some("France"), Some("technology"), Some("mature"), Some(Num(50000))) }

GrantRows ==
    { Displayed(Grant(Some("Africa-wide"), None, Some("agriculture, agritech"),
                      Some(Num(100000))),
                Some("AfDB"), Some("https://afdb.org"), Some("https://data.org/1"),
                Some(FALSE)),
      Displayed(Grant(Some("Global"), Some("Kenya"), Some("agriculture, agritech"),
                      Some(Num(50000))),
                Some(""), Some("https://kcb.co.ke"), None, Some(TRUE)),
      Displayed(Grant(None, Some("Somalia"), Some("smart farming"),
                      Some(Num(100000000))),
                Some("World Bank"), None, None, Some(FALSE)) }

LoadedGrantRows ==
    { Displayed(Grant(Some("Kenya, Uganda"), None, None, None),
                Some("EAC"), None, None, None) }

WithId(row, id) == [ f \in DOMAIN row \cup {"id"} |-> IF f = "id" THEN id ELSE row[f] ]

MaxCompanies == 1

MaxGrants == 3

\* top_n is validated by the endpoint to 1..20; the model asks for 1..MaxTopN.
MaxTopN == 3

(***************************************************************************)
(* find_matches: the loop body, the sort and the slice.                    *)
(***************************************************************************)
\* str(x) of a bool.
str(b) == IF b THEN "True" ELSE "False"

\* The match dict with the repayment flag tested for truth, not for None.
MatchDict_falsy_flag(grant, scored) ==
    [ grant |-> grant,
      program_name |-> TextOr(grant.program_name, "Unknown Program"),
      institution |-> TextOr(grant.institution_name, "Unknown Institution"),
      country |-> TextOr(grant.country, "Unknown"),
      funding_amount |-> NumOr(grant.estimated_value_amount, Num(0)),
      match_score |-> round1(scored.score),
      score_breakdown |-> scored.breakdown,
      target_sectors |-> TextOr(grant.target_sectors, "General"),
      website |-> TextOr(grant.website_url, "Not available"),
      data_source_url |-> TextOr(grant.data_source_url, "Not available"),
      repayment_required |-> IF grant.repayment_required = Some(TRUE)
                             THEN str(Value(grant.repayment_required))
                             ELSE "Unknown" ]

\* The dict appended for a grant whose score passed the threshold.
MatchDict(grant, scored) ==
    [ grant |-> grant,
      program_name |-> TextOr(grant.program_name, "Unknown Program"),
      institution |-> TextOr(grant.institution_name, "Unknown Institution"),
      country |-> TextOr(grant.country, "Unknown"),
      funding_amount |-> NumOr(grant.estimated_value_amount, Num(0)),
      match_score |-> round1(scored.score),
      score_breakdown |-> scored.breakdown,
      target_sectors |-> TextOr(grant.target_sectors, "General"),
      website |-> TextOr(grant.website_url, "Not available"),
      data_source_url |-> TextOr(grant.data_source_url, "Not available"),
      repayment_required |-> IF grant.repayment_required # None
                             THEN str(Value(grant.repayment_required))
                             ELSE "Unknown" ]

\* The loop body with the threshold at 60.
LoopBody_threshold_60(acc, co, grant) ==
    LET scored == _calculate_match_score(co, grant)
    IN  IF scored.score > F(60) THEN Append(acc, MatchDict(grant, scored)) ELSE acc

\* The loop body with the threshold at 20.
LoopBody_threshold_20(acc, co, grant) ==
    LET scored == _calculate_match_score(co, grant)
    IN  IF scored.score > F(20) THEN Append(acc, MatchDict(grant, scored)) ELSE acc

\* Lines 35-50: score one grant and append it when the score is above 30.
LoopBody(acc, co, grant) ==
    LET scored == _calculate_match_score(co, grant)
    IN  IF scored.score > F(30) THEN Append(acc, MatchDict(grant, scored)) ELSE acc

\* The insertion point of a sort that puts m before the elements equal to it.
InsertPos_before_ties(s, m) ==
    Cardinality({ k \in 1..Len(s) : s[k].match_score > m.match_score })

\* Where a stable descending sort puts m in the sorted list s: after every
\* element whose key is greater than or equal to m's.
InsertPos(s, m) == Cardinality({ k \in 1..Len(s) : s[k].match_score >= m.match_score })

\* sorted(matches, key=match_score) without reverse=True: ascending.
RECURSIVE sorted_forward(_)
sorted_forward(ms) ==
    IF ms = << >> THEN << >>
    ELSE LET s == sorted_forward(SubSeq(ms, 1, Len(ms) - 1))
             m == ms[Len(ms)]
             k == Cardinality({ j \in 1..Len(s) : s[j].match_score <= m.match_score })
         IN  SubSeq(s, 1, k) \o << m >> \o SubSeq(s, k + 1, Len(s))

\* sorted(matches, key=match_score, reverse=True): descending and stable.
RECURSIVE sorted_reverse(_)
sorted_reverse(ms) ==
    IF ms = << >> THEN << >>
    ELSE LET s == sorted_reverse(SubSeq(ms, 1, Len(ms) - 1))
             m == ms[Len(ms)]
             k == InsertPos(s, m)
         IN  SubSeq(s, 1, k) \o << m >> \o SubSeq(s, k + 1, Len(s))

\* s[-n:] for n >= 1: the last n entries.
Slice_from_end(s, n) == SubSeq(s, Len(s) - min(n, Len(s)) + 1, Len(s))

\* s[:n] for n >= 0.
Slice(s, n) == SubSeq(s, 1, min(n, Len(s)))

(***************************************************************************)
(* State.                                                                  *)
(***************************************************************************)
VARIABLES
    arg,            \* ScoreSpec: the (company, grant) pair being scored
    ret,            \* ScoreSpec: what _calculate_match_score returned, else None
    db_companies,   \* table companies, in primary-key order
    db_grants,      \* table grants, in primary-key order
    pc,             \* position of the match request
    company_id,     \* its path parameter
    top_n,          \* its query parameter
    company,        \* find_matches: the fetched company, else None
    grants,         \* find_matches: the fetched grant list
    idx,            \* find_matches: index of the next grant of the loop
    matches,        \* find_matches: the matches appended so far
    outcome,        \* find_matches: what it returned or raised, else None
    queries,        \* the tables this request has queried, in order
    fault,          \* what the data provider raised in this request, else None
    ai_enabled,     \* the handler's GeminiService.ai_enabled
    ai_log,         \* what each call of get_ai_recommendation did, in order
    response,       \* what the handler answered, else None
    suspended       \* ConcSpec: the invocation that is not running

vars == << arg, ret, db_companies, db_grants, pc, company_id, top_n, company,
           grants, idx, matches, outcome, queries, fault, ai_enabled, ai_log,
           response, suspended >>

db == << db_companies, db_grants >>

\* The locals of one find_matches invocation.
invocation == << pc, company_id, top_n, company, grants, idx, matches, outcome,
                 queries, fault >>

handler == << ai_enabled, ai_log, response >>

request == << invocation, handler >>

(***************************************************************************)
(* ScoreSpec: one pass of the find_matches loop body on arbitrary records. *)
(***************************************************************************)
ScoreInit ==
    /\ arg \in [ company : Companies, grant : Grants ]
    /\ ret = None
    /\ db_companies = << >> /\ db_grants = << >>
    /\ pc = "loop"
    /\ company_id = 0 /\ top_n = 0
    /\ company = None
    /\ grants = << >>
    /\ idx = 0
    /\ matches = << >>
    /\ outcome = None
    /\ queries = << >>
    /\ fault = None
    /\ ai_enabled = FALSE /\ ai_log = << >> /\ response = None
    /\ suspended = None

CalculateMatchScore ==
    /\ pc = "loop" /\ ret = None
    /\ ret' = Some(_calculate_match_score(arg.company, arg.grant))
    /\ matches' = IF Raises(_calculate_match_score(arg.company, arg.grant))
                  THEN matches
                  ELSE LoopBody(matches, arg.company, arg.grant)
    /\ UNCHANGED << arg, db, pc, company_id, top_n, company, grants, idx, outcome,
                    queries, fault, handler, suspended >>

ScoreNext == CalculateMatchScore

ScoreSpec == ScoreInit /\ [][ScoreNext]_vars

(***************************************************************************)
(* TextSpec: the same pass of the loop body on records whose texts come    *)
(* in every state a column can be in: NULL, empty, blanks only, and        *)
(* written in mixed case with blanks around.  The amounts are fixed.       *)
(***************************************************************************)
TextNationalities ==
    { None, Some(""), Some("  "), Some("Kenya"), Some(" MALI "), Some("France") }

TextSectors == { None, Some(""), Some("  "), Some("Agriculture"), Some("agri tech") }

TextStages == { None, Some(""), Some("Startup"), Some(" Idea "), Some("mature") }

TextScopes == { None, Some(""), Some("Global"), Some("Africa-wide"), Some("Kenya, Uganda") }

TextCountries == { None, Some(""), Some("Somalia") }

TextTargetSectors ==
    { None, Some(""), Some("agriculture, agritech"),
      Some("General support for all sectors"), Some("smart farming") }

TextInit ==
    /\ arg \in [ company : { Company(n, s, b, Some(Num(40))) :
                                n \in TextNationalities, s \in TextSectors,
                                b \in TextStages },
                  grant : { Grant(g, c, t, Some(Num(40))) :
                               g \in TextScopes, c \in TextCountries,
                               t \in TextTargetSectors } ]
    /\ ret = None
    /\ db_companies = << >> /\ db_grants = << >>
    /\ pc = "loop"
    /\ company_id = 0 /\ top_n = 0
    /\ company = None
    /\ grants = << >>
    /\ idx = 0
    /\ matches = << >>
    /\ outcome = None
    /\ queries = << >>
    /\ fault = None
    /\ ai_enabled = FALSE /\ ai_log = << >> /\ response = None
    /\ suspended = None

TextSpec == TextInit /\ [][ScoreNext]_vars

(***************************************************************************)
(* Spec: the service.  The tables start empty and grow through the two     *)
(* create endpoints; one match request at a time runs find_matches.        *)
(***************************************************************************)
Init ==
    /\ arg = None /\ ret = None
    /\ db_companies = << >> /\ db_grants = << >>
    /\ pc = "idle"
    /\ company_id = 0 /\ top_n = 0
    /\ company = None
    /\ grants = << >>
    /\ idx = 0
    /\ matches = << >>
    /\ outcome = None
    /\ queries = << >>
    /\ fault = None
    /\ ai_enabled = FALSE /\ ai_log = << >> /\ response = None
    /\ suspended = None

\* POST /companies
create_company ==
    /\ Len(db_companies) < MaxCompanies
    /\ \E row \in CompanyRows :
          db_companies' = Append(db_companies, WithId(row, Len(db_companies) + 1))
    /\ UNCHANGED << arg, ret, suspended, db_grants, request >>

\* POST /grants
create_grant ==
    /\ Len(db_grants) < MaxGrants
    /\ \E row \in GrantRows :
          db_grants' = Append(db_grants, WithId(row, Len(db_grants) + 1))
    /\ UNCHANGED << arg, ret, suspended, db_companies, request >>

\* scripts/load_grants.py: a row of the file is stored as it was read.
load_grants ==
    /\ Len(db_grants) < MaxGrants
    /\ \E row \in LoadedGrantRows :
          db_grants' = Append(db_grants, WithId(row, Len(db_grants) + 1))
    /\ UNCHANGED << arg, ret, suspended, db_companies, request >>

\* POST /match/{company_id}?top_n=: the handler is entered.
match_company_with_grants ==
    /\ pc = "idle"
    /\ \E id \in 1..(MaxCompanies + 1), n \in 1..MaxTopN :
          /\ company_id' = id
          /\ top_n' = n
    /\ pc' = "query_company"
    /\ UNCHANGED << arg, ret, suspended, db, company, grants, idx, matches, outcome,
                    queries, fault, handler >>

\* find_matches fetching the grants before it looks at the company.
QueryCompany_grants_first ==
    /\ pc = "query_company"
    /\ IF company_id \in 1..Len(db_companies)
       THEN /\ company' = Some(db_companies[company_id])
            /\ pc' = "query_grants"
            /\ outcome' = outcome
            /\ queries' = Append(queries, "Company")
            /\ grants' = grants
       ELSE /\ company' = None
            /\ pc' = "done"
            /\ outcome' = Some([ raised |-> "ValueError" ])
            /\ queries' = queries \o << "Company", "Grant" >>
            /\ grants' = db_grants
    /\ UNCHANGED << arg, ret, suspended, handler, fault, db, company_id, top_n, idx, matches >>

\* Lines 26-28: the company is fetched, or ValueError is raised.
QueryCompany ==
    /\ pc = "query_company"
    /\ queries' = Append(queries, "Company")
    /\ IF company_id \in 1..Len(db_companies)
       THEN /\ company' = Some(db_companies[company_id])
            /\ pc' = "query_grants"
            /\ outcome' = outcome
       ELSE /\ company' = None
            /\ pc' = "done"
            /\ outcome' = Some([ raised |-> "ValueError" ])
    /\ UNCHANGED << arg, ret, suspended, handler, fault, db, company_id, top_n, grants, idx, matches >>

\* Line 30: all grants are fetched.
QueryGrants ==
    /\ pc = "query_grants"
    /\ queries' = Append(queries, "Grant")
    /\ grants' = db_grants
    /\ idx' = 1
    /\ matches' = << >>
    /\ pc' = "loop"
    /\ UNCHANGED << arg, ret, suspended, handler, fault, db, company_id, top_n, company, outcome >>

\* The loop writing the displayed default of target_sectors into the grant
\* it scored, and the session flushing it.
ScoreGrant_writes_defaults ==
    /\ pc = "loop"
    /\ idx <= Len(grants)
    /\ LET scored == _calculate_match_score(Value(company), grants[idx])
       IN  IF Raises(scored)
           THEN /\ outcome' = Some(scored)
                /\ pc' = "done"
                /\ UNCHANGED << matches, idx >>
           ELSE /\ matches' = LoopBody(matches, Value(company), grants[idx])
                /\ idx' = idx + 1
                /\ UNCHANGED << outcome, pc >>
    /\ db_grants' = [ db_grants EXCEPT ![idx] =
                         [ @ EXCEPT !.target_sectors = Some(TextOr(@, "General")) ] ]
    /\ UNCHANGED << arg, ret, suspended, handler, fault, db_companies, company_id, top_n,
                    company, grants, queries >>

\* Lines 34-50: one iteration of the loop; what the scoring raises leaves
\* find_matches, which has no handler.
ScoreGrant ==
    /\ pc = "loop"
    /\ idx <= Len(grants)
    /\ LET scored == _calculate_match_score(Value(company), grants[idx])
       IN  IF Raises(scored)
           THEN /\ outcome' = Some(scored)
                /\ pc' = "done"
                /\ UNCHANGED << matches, idx >>
           ELSE /\ matches' = LoopBody(matches, Value(company), grants[idx])
                /\ idx' = idx + 1
                /\ UNCHANGED << outcome, pc >>
    /\ UNCHANGED << arg, ret, suspended, handler, fault, db, company_id, top_n, company, grants, queries >>

\* Lines 52-54: sort, slice and return.
SortAndReturn ==
    /\ pc = "loop"
    /\ idx > Len(grants)
    /\ outcome' = Some([ company |-> Value(company),
                         matches_sorted |-> Slice(sorted_reverse(matches), top_n) ])
    /\ pc' = "done"
    /\ UNCHANGED << arg, ret, suspended, handler, fault, db, company_id, top_n, company, grants, idx, matches, queries >>

\* Lines 26 and 30: the query raises instead of returning.  find_matches
\* has no handler, so the exception leaves it.
ProviderErrors == { "OperationalError", "InterfaceError" }

QueryCompanyFails ==
    /\ pc = "query_company"
    /\ queries' = Append(queries, "Company")
    /\ \E e \in ProviderErrors :
          /\ fault' = Some(e)
          /\ outcome' = Some(Raise(e))
    /\ pc' = "done"
    /\ UNCHANGED << arg, ret, suspended, handler, db, company_id, top_n, company, grants,
                    idx, matches >>

\* The failure of the grants query caught and turned into an empty collection.
QueryGrantsFails_swallowed ==
    /\ pc = "query_grants"
    /\ queries' = Append(queries, "Grant")
    /\ \E e \in ProviderErrors : fault' = Some(e)
    /\ grants' = << >>
    /\ idx' = 1
    /\ matches' = << >>
    /\ pc' = "loop"
    /\ UNCHANGED << arg, ret, suspended, handler, db, company_id, top_n, company, outcome >>

QueryGrantsFails ==
    /\ pc = "query_grants"
    /\ queries' = Append(queries, "Grant")
    /\ \E e \in ProviderErrors :
          /\ fault' = Some(e)
          /\ outcome' = Some(Raise(e))
    /\ pc' = "done"
    /\ UNCHANGED << arg, ret, suspended, handler, db, company_id, top_n, company, grants,
                    idx, matches >>

(***************************************************************************)
(* The response schemas.  from_orm raises ValidationError when a column    *)
(* does not fit its field.                                                 *)
(***************************************************************************)
\* GrantResponse.from_orm(grant): program_name has min_length 1,
\* institution_name is a str, estimated_value_amount an optional float and
\* repayment_required a bool.
GrantResponseValid(grant) ==
    /\ grant.program_name # None /\ Len(Value(grant.program_name)) >= 1
    /\ grant.institution_name # None
    /\ grant.estimated_value_amount # None => IsNumber(Value(grant.estimated_value_amount))
    /\ grant.repayment_required # None

\* CompanyResponse.from_orm(company): sector and business_stage have
\* min_length 1, nationality min_length 2, and funding_need_usd is > 0.
CompanyResponseValid(co) ==
    /\ co.sector # None /\ Len(Value(co.sector)) >= 1
    /\ co.nationality # None /\ Len(Value(co.nationality)) >= 2
    /\ co.business_stage # None /\ Len(Value(co.business_stage)) >= 1
    /\ co.funding_need_usd # None
    /\ IsNumber(Value(co.funding_need_usd))
    /\ Value(co.funding_need_usd).num > 0

\* MatchResult(...) of lines 141-158: the fields of the match dict, the
\* grant moved under grant_details.
MatchResult(match) ==
    [ f \in (DOMAIN match \ {"grant"}) \cup {"grant_details"} |->
         IF f = "grant_details" THEN match.grant ELSE match[f] ]

\* An exception no handler catches: the framework answers 500.
InternalServerError == [ status |-> 500, detail |-> "Internal Server Error" ]

(***************************************************************************)
(* GeminiService.get_ai_recommendation.                                    *)
(***************************************************************************)
get_company_profile_dict(co) ==
    [ company_name |-> co.company_name, sector |-> co.sector,
      nationality |-> co.nationality, business_stage |-> co.business_stage,
      funding_need_usd |-> co.funding_need_usd, founder_age |-> co.founder_age ]

\* What model.generate_content can do: return a text, or raise.
GenerateContent ==
    { [ text |-> "Excellent: apply today" ], Raise("429 quota exceeded"),
      Raise("404 model not found"), Raise("connection reset") }

\* The messages of lines 47, 98, 100 and 102, without their leading symbol.
KeyMissingMessage ==
    "Add your Gemini API key to .env file to get AI-powered recommendations!"

QuotaMessage ==
    "Too many requests. Free tier: 15 requests/minute. Please wait 60 seconds."

ModelMissingMessage == "Model not available. Check your API key."

UnavailableMessage(error_msg) == "AI temporarily unavailable: " \o error_msg

\* The format ":," of lines 57 and 62 raises on None and on a text.
FormatRaises(opt) == opt = None \/ ~IsNumber(Value(opt))

\* Lines 50-79: the prompt is built outside the try.
get_ai_recommendation_raises(enabled, company_profile, match) ==
    /\ enabled
    /\ \/ FormatRaises(company_profile.funding_need_usd)
       \/ FormatRaises(Some(match.funding_amount))

\* The message get_ai_recommendation returns when it does not raise.
get_ai_recommendation(enabled, company_profile, match, generated) ==
    IF ~enabled THEN Some(KeyMissingMessage)
    ELSE IF ~Raises(generated) THEN Some(generated.text)
    ELSE LET error_msg == generated.raised
         IN  IF Contains("quota", lower(error_msg)) \/ Contains("rate", lower(error_msg))
             THEN Some(QuotaMessage)
             ELSE IF Contains("404", error_msg) \/ Contains("not found", lower(error_msg))
             THEN Some(ModelMissingMessage)
             ELSE Some(UnavailableMessage(error_msg))

(***************************************************************************)
(* The rest of the handler, after find_matches.                            *)
(***************************************************************************)
\* The handler with a single except clause that answers 404 to every
\* exception.
BuildResults_all_not_found ==
    /\ pc = "done"
    /\ LET result == Value(outcome)
       IN  IF Raises(result)
           THEN /\ response' = Some([ status |-> 404, detail |-> "not found" ])
                /\ pc' = "responded"
           ELSE IF result.matches_sorted = << >>
           THEN /\ response' =
                      Some(IF CompanyResponseValid(result.company)
                           THEN [ status |-> 200,
                                  company |-> result.company,
                                  matches |-> << >>,
                                  ai_recommendation |->
                                      Some("No suitable matches found with score > 30."),
                                  total_matches_found |-> 0 ]
                           ELSE InternalServerError)
                /\ pc' = "responded"
           ELSE IF \E k \in 1..Len(result.matches_sorted) :
                       ~GrantResponseValid(result.matches_sorted[k].grant)
           THEN /\ response' = Some(InternalServerError)
                /\ pc' = "responded"
           ELSE /\ response' = response
                /\ pc' = "recommend"
    /\ UNCHANGED << arg, ret, suspended, db, company_id, top_n, company, grants, idx,
                    matches, outcome, queries, fault, ai_enabled, ai_log >>

\* Lines 122-160: the two except clauses, the empty case, and the build of
\* the MatchResult list.
BuildResults ==
    /\ pc = "done"
    /\ LET result == Value(outcome)
       IN  IF Raises(result)
           THEN /\ response' = Some(IF result.raised = "ValueError"
                                    THEN [ status |-> 404, detail |-> "not found" ]
                                    ELSE [ status |-> 500, detail |-> "Matching error" ])
                /\ pc' = "responded"
           ELSE IF result.matches_sorted = << >>
           THEN /\ response' =
                      Some(IF CompanyResponseValid(result.company)
                           THEN [ status |-> 200,
                                  company |-> result.company,
                                  matches |-> << >>,
                                  ai_recommendation |->
                                      Some("No suitable matches found with score > 30."),
                                  total_matches_found |-> 0 ]
                           ELSE InternalServerError)
                /\ pc' = "responded"
           ELSE IF \E k \in 1..Len(result.matches_sorted) :
                       ~GrantResponseValid(result.matches_sorted[k].grant)
           THEN /\ response' = Some(InternalServerError)
                /\ pc' = "responded"
           ELSE /\ response' = response
                /\ pc' = "recommend"
    /\ UNCHANGED << arg, ret, suspended, db, company_id, top_n, company, grants, idx,
                    matches, outcome, queries, fault, ai_enabled, ai_log >>

\* The handler reporting how many grants scored above the threshold.
Recommend_counts_qualifying ==
    /\ pc = "recommend"
    /\ ai_enabled' \in BOOLEAN
    /\ \E generated \in GenerateContent :
          LET result == Value(outcome)
              company_profile == get_company_profile_dict(result.company)
              top == result.matches_sorted[1]
              raises == get_ai_recommendation_raises(ai_enabled', company_profile, top)
              ai_recommendation ==
                  get_ai_recommendation(ai_enabled', company_profile, top, generated)
          IN  /\ ai_log' = Append(ai_log,
                                  IF ~ai_enabled' THEN "disabled"
                                  ELSE IF raises THEN "TypeError"
                                  ELSE IF Raises(generated) THEN generated.raised
                                  ELSE "generated")
              /\ response' =
                    Some(IF raises \/ ~CompanyResponseValid(result.company)
                         THEN InternalServerError
                         ELSE [ status |-> 200,
                                company |-> result.company,
                                matches |-> [ k \in 1..Len(result.matches_sorted) |->
                                                 MatchResult(result.matches_sorted[k]) ],
                                ai_recommendation |-> ai_recommendation,
                                total_matches_found |->
                                    Cardinality({ k \in 1..Len(grants) :
                                       _calculate_match_score(result.company,
                                           grants[k]).score > F(30) }) ])
    /\ pc' = "responded"
    /\ UNCHANGED << arg, ret, suspended, db, company_id, top_n, company, grants, idx,
                    matches, outcome, queries, fault >>

\* Lines 163-171: the recommendation for the top match, and the response.
\* ai_enabled is what GeminiService() set at line 120, from the configured
\* key and the set-up of the client; line 46 is its first reader.
Recommend ==
    /\ pc = "recommend"
    /\ ai_enabled' \in BOOLEAN
    /\ \E generated \in GenerateContent :
          LET result == Value(outcome)
              company_profile == get_company_profile_dict(result.company)
              top == result.matches_sorted[1]
              raises == get_ai_recommendation_raises(ai_enabled', company_profile, top)
              ai_recommendation ==
                  get_ai_recommendation(ai_enabled', company_profile, top, generated)
          IN  /\ ai_log' = Append(ai_log,
                                  IF ~ai_enabled' THEN "disabled"
                                  ELSE IF raises THEN "TypeError"
                                  ELSE IF Raises(generated) THEN generated.raised
                                  ELSE "generated")
              /\ response' =
                    Some(IF raises \/ ~CompanyResponseValid(result.company)
                         THEN InternalServerError
                         ELSE [ status |-> 200,
                                company |-> result.company,
                                matches |-> [ k \in 1..Len(result.matches_sorted) |->
                                                 MatchResult(result.matches_sorted[k]) ],
                                ai_recommendation |-> ai_recommendation,
                                total_matches_found |-> Len(result.matches_sorted) ])
    /\ pc' = "responded"
    /\ UNCHANGED << arg, ret, suspended, db, company_id, top_n, company, grants, idx,
                    matches, outcome, queries, fault >>

\* The response is sent and the locals of the handler are dropped.
Finish ==
    /\ pc = "responded"
    /\ pc' = "idle"
    /\ company_id' = 0 /\ top_n' = 0
    /\ company' = None
    /\ grants' = << >>
    /\ idx' = 0
    /\ matches' = << >>
    /\ outcome' = None
    /\ queries' = << >>
    /\ fault' = None
    /\ ai_enabled' = FALSE /\ ai_log' = << >> /\ response' = None
    /\ UNCHANGED << arg, ret, suspended, db >>

Next ==
    \/ create_company
    \/ create_grant
    \/ load_grants
    \/ match_company_with_grants
    \/ QueryCompany
    \/ QueryCompanyFails
    \/ QueryGrants
    \/ QueryGrantsFails
    \/ ScoreGrant
    \/ SortAndReturn
    \/ BuildResults
    \/ Recommend
    \/ Finish

Spec == Init /\ [][Next]_vars

(***************************************************************************)
(* ConcSpec: two invocations of find_matches with the same arguments, each *)
(* with its own matcher and session, over a store that does not change.    *)
(* The variables of the invocation hold the one that is running; Yield     *)
(* hands the processor to the other one between any two steps.             *)
(***************************************************************************)
MaxSnapshotGrants == 2

\* The locals of the running invocation, as a record.
Context ==
    [ pc |-> pc, company_id |-> company_id, top_n |-> top_n, company |-> company,
      grants |-> grants, idx |-> idx, matches |-> matches, outcome |-> outcome,
      queries |-> queries, fault |-> fault ]

\* A table of n rows drawn from rows, keyed 1..n.
Tables(rows, n) == { [ k \in 1..n |-> WithId(f[k], k) ] : f \in [ 1..n -> rows ] }

ConcInit ==
    /\ arg = None /\ ret = None
    /\ db_companies \in Tables(CompanyRows, MaxCompanies)
    /\ db_grants \in Tables(GrantRows \cup LoadedGrantRows, MaxSnapshotGrants)
    /\ pc = "query_company"
    /\ company_id \in 1..(MaxCompanies + 1)
    /\ top_n \in 1..MaxTopN
    /\ company = None
    /\ grants = << >>
    /\ idx = 0
    /\ matches = << >>
    /\ outcome = None
    /\ queries = << >>
    /\ fault = None
    /\ ai_enabled = FALSE /\ ai_log = << >> /\ response = None
    /\ suspended = Some(Context)

\* A switch that leaves the list of matches where it is: one list shared by
\* the two invocations.
Yield_shared_matches ==
    /\ suspended # None
    /\ suspended' = Some(Context)
    /\ pc' = Value(suspended).pc
    /\ company_id' = Value(suspended).company_id
    /\ top_n' = Value(suspended).top_n
    /\ company' = Value(suspended).company
    /\ grants' = Value(suspended).grants
    /\ idx' = Value(suspended).idx
    /\ matches' = matches
    /\ outcome' = Value(suspended).outcome
    /\ queries' = Value(suspended).queries
    /\ fault' = Value(suspended).fault
    /\ UNCHANGED << arg, ret, db, handler >>

\* The running invocation is suspended and the other one resumed.  Every
\* local of find_matches belongs to its invocation.
Yield ==
    /\ suspended # None
    /\ suspended' = Some(Context)
    /\ pc' = Value(suspended).pc
    /\ company_id' = Value(suspended).company_id
    /\ top_n' = Value(suspended).top_n
    /\ company' = Value(suspended).company
    /\ grants' = Value(suspended).grants
    /\ idx' = Value(suspended).idx
    /\ matches' = Value(suspended).matches
    /\ outcome' = Value(suspended).outcome
    /\ queries' = Value(suspended).queries
    /\ fault' = Value(suspended).fault
    /\ UNCHANGED << arg, ret, db, handler >>

ConcNext ==
    \/ QueryCompany
    \/ QueryGrants
    \/ ScoreGrant
    \/ SortAndReturn
    \/ Yield

ConcSpec == ConcInit /\ [][ConcNext]_vars

(***************************************************************************)
(* find_matches run alone and in one piece over the store.                 *)
(***************************************************************************)
\* Lines 32-50: the loop over all the grants.
RECURSIVE Loop(_, _, _)
Loop(acc, co, gs) ==
    IF gs = << >> THEN acc ELSE Loop(LoopBody(acc, co, Head(gs)), co, Tail(gs))

find_matches(id, n) ==
    IF id \notin 1..Len(db_companies) THEN Raise("ValueError")
    ELSE LET co == db_companies[id]
         IN  IF \E k \in 1..Len(db_grants) :
                    Raises(_calculate_match_score(co, db_grants[k]))
             THEN Raise("TypeError")
             ELSE [ company |-> co,
                    matches_sorted |-> Slice(sorted_reverse(Loop(<< >>, co, db_grants)), n) ]

(***************************************************************************)
(* Properties of the scoring functions, checked under ScoreSpec.           *)
(***************************************************************************)
Called == ret # None

Returned == Called /\ ~Raises(Value(ret))

Score == Value(ret).score

Breakdown == Value(ret).breakdown

SumOf(b) == b.geographic + b.sector + b.amount_fit + b.stage

\* C1: the score returned by _calculate_match_score is the exact sum of the
\* four entries of its breakdown and also min(100, that sum), so the clamp
\* never changes the value; the match_score of every match find_matches
\* builds equals the same sum of its score_breakdown, rounding included.
C1_ScoreIsSumOfBreakdown ==
    /\ Returned =>
          /\ Score = SumOf(Breakdown)
          /\ Score = min(F(100), SumOf(Breakdown))
    /\ \A k \in 1..Len(matches) :
          /\ matches[k].match_score = SumOf(matches[k].score_breakdown)
          /\ matches[k].match_score = min(F(100), SumOf(matches[k].score_breakdown))

\* The four sub-scores are all at their caps: the sum is exactly 100.
C1_Witness ==
    /\ Returned
    /\ Breakdown = [ geographic |-> F(40), sector |-> F(30),
                     amount_fit |-> F(20), stage |-> F(10) ]
    /\ Len(matches) = 1
    /\ matches[1].match_score = F(100)

\* C2: every sub-score lies in its discrete set: geographic in {0, 35, 40},
\* sector in {10, 20, 25, 30}, amount_fit in {8, 15, 20}, stage in
\* {7, 8, 9, 10}; none is negative and none exceeds its cap 40/30/20/10.
C2_SubScoresInRange ==
    Returned =>
        /\ Breakdown.geographic \in { F(0), F(35), F(40) }
        /\ Breakdown.sector \in { F(10), F(20), F(25), F(30) }
        /\ Breakdown.amount_fit \in { F(8), F(15), F(20) }
        /\ Breakdown.stage \in { F(7), F(8), F(9), F(10) }
        /\ Breakdown.geographic >= 0 /\ Breakdown.geographic <= F(40)
        /\ Breakdown.sector >= 0 /\ Breakdown.sector <= F(30)
        /\ Breakdown.amount_fit >= 0 /\ Breakdown.amount_fit <= F(20)
        /\ Breakdown.stage >= 0 /\ Breakdown.stage <= F(10)

\* Every sub-score is at the low end of its set.
C2_Witness ==
    /\ Returned
    /\ Breakdown = [ geographic |-> F(0), sector |-> F(10),
                     amount_fit |-> F(8), stage |-> F(7) ]

\* The scored texts of the pair, lower-cased and trimmed.
Nationality == Norm(arg.company.nationality)

Scope == Norm(arg.grant.geographic_scope)

Country == Norm(arg.grant.country)

Sector == Norm(arg.company.sector)

Targets == Norm(arg.grant.target_sectors)

Stage == Norm(arg.company.business_stage)

\* C7: the geography sub-score is 40 if the scope contains "global"; else 40
\* if the nationality is a substring of the grant country or of the scope;
\* else 35 if the nationality is one of the 23 listed African countries and
\* the scope contains "africa" or "african"; else 0.
C7_GeographyRule ==
    /\ Cardinality(africa_countries) = 23
    /\ Returned =>
          LET nat == Nationality
              scope == Scope
              global == Contains("global", scope)
              exact == Contains(nat, Country) \/ Contains(nat, scope)
              regional == /\ nat \in africa_countries
                          /\ (Contains("africa", scope) \/ Contains("african", scope))
          IN  Breakdown.geographic =
                 CASE global -> F(40)
                   [] ~global /\ exact -> F(40)
                   [] ~global /\ ~exact /\ regional -> F(35)
                   [] OTHER -> F(0)

\* Nationality "mali" against grant country "Somalia" under an Africa-wide
\* scope: the substring match wins over the regional rule.
C7_Witness ==
    /\ Returned
    /\ Nationality = "mali" /\ Country = "somalia" /\ Scope = "africa-wide"
    /\ Breakdown.geographic = F(40)

\* s[i..j] is a whitespace-delimited word of s.
IsWord(s, i, j) ==
    /\ 1 <= i /\ i <= j /\ j <= Len(s)
    /\ \A k \in i..j : CharAt(s, k) \notin Whitespace
    /\ i = 1 \/ CharAt(s, i - 1) \in Whitespace
    /\ j = Len(s) \/ CharAt(s, j + 1) \in Whitespace

\* C8: the sector sub-score is 25 if target_sectors contains "all",
\* "general" or "any", even when the company sector is a substring too;
\* else 30 if the company sector is a substring of target_sectors; else 20
\* if a whitespace-delimited word of the company sector longer than 3
\* characters is a substring of target_sectors; else 10.  It is never 0.
C8_SectorRule ==
    Returned =>
       LET sector == Sector
           targets == Targets
           catchAll == \/ Contains("all", targets)
                       \/ Contains("general", targets)
                       \/ Contains("any", targets)
           exact == Contains(sector, targets)
           partial == \E i \in 1..Len(sector) : \E j \in (i + 3)..Len(sector) :
                         /\ IsWord(sector, i, j)
                         /\ Contains(SubSeq(sector, i, j), targets)
       IN  /\ Breakdown.sector =
                 IF catchAll THEN F(25)
                 ELSE IF exact THEN F(30)
                 ELSE IF partial THEN F(20)
                 ELSE F(10)
           /\ Breakdown.sector # F(0)

\* A catch-all grant whose text also contains the company sector scores 25.
C8_Witness ==
    /\ Returned
    /\ Sector = "agriculture" /\ Targets = "agriculture (any scale)"
    /\ Breakdown.sector = F(25)

\* C9: amount_fit is 15 when the funding need or the grant amount is zero
\* or absent; otherwise 20 when 10*need >= available and need <= 2*available,
\* else 15 when 20*need >= available and need <= 5*available, else 8.
C9_AmountRule ==
    Returned =>
       LET n == arg.company.funding_need_usd
           a == arg.grant.estimated_value_amount
           unknown == n = None \/ a = None \/ n = Some(Num(0)) \/ a = Some(Num(0))
           need == Value(n).num
           available == Value(a).num
       IN  Breakdown.amount_fit =
              IF unknown THEN F(15)
              ELSE IF 10 * need >= available /\ need <= 2 * available THEN F(20)
              ELSE IF 20 * need >= available /\ need <= 5 * available THEN F(15)
              ELSE F(8)

\* The ratio is exactly 0.1, the inclusive lower end of the best range.
C9_Witness ==
    /\ Returned
    /\ arg.company.funding_need_usd = Some(Num(4))
    /\ arg.grant.estimated_value_amount = Some(Num(40))
    /\ Breakdown.amount_fit = F(20)

\* C10: the stage sub-score is a function of the lower-cased, trimmed
\* business_stage alone, whatever the grant: 10 for "startup" and "early
\* growth", 8 for "idea", 9 for "growth", "scale-up" and "expansion", 7 for
\* anything else, empty and missing included.
C10_StageRule ==
    Returned =>
       LET stage == Stage
       IN  Breakdown.stage =
              CASE stage = "startup" \/ stage = "early growth" -> F(10)
                [] stage = "idea" -> F(8)
                [] stage = "growth" \/ stage = "scale-up" \/ stage = "expansion" -> F(9)
                [] OTHER -> F(7)

\* A stage stored as " Idea " scores 8 against a grant that has every field.
C10_Witness ==
    /\ Returned
    /\ arg.company.business_stage = Some(" Idea ")
    /\ arg.grant = Grant(Some("Global"), Some("Somalia"),
                         Some("agriculture, agritech"), Some(Num(40)))
    /\ Breakdown.stage = F(8)

\* C11: the scoring is total: whatever the scored fields hold, nulls, empty
\* texts and amounts that are not numbers included, _calculate_match_score
\* returns a (score, breakdown) pair and never raises.
C11_ScoringNeverRaises == Called => ~Raises(Value(ret))

\* A positive funding need met a grant whose amount is the text "N/A": the
\* division of line 139 raised TypeError.
C11_Raised ==
    /\ Called
    /\ arg.company.funding_need_usd = Some(Num(40))
    /\ arg.grant.estimated_value_amount = Some(Str("N/A"))
    /\ Value(ret) = Raise("TypeError")

\* C21: every score is at least 25; a grant whose geography sub-score is
\* not 0 scores at least 60 and so passes the threshold; a grant is left
\* out by the threshold only if its geography sub-score is 0 and sector +
\* amount_fit + stage is at most 30.
C21_ScoreFloors ==
    Returned =>
        LET b == Breakdown
            rest == b.sector + b.amount_fit + b.stage
        IN  /\ Score >= F(25)
            /\ b.geographic # F(0) => (Score >= F(60) /\ Len(matches) = 1)
            /\ matches = << >> => (b.geographic = F(0) /\ rest <= F(30))

\* An African company against an Africa-wide grant with the lowest sector,
\* amount and stage sub-scores: the score is exactly 60 and the grant is kept.
C21_Witness ==
    /\ Returned
    /\ Breakdown = [ geographic |-> F(35), sector |-> F(10),
                     amount_fit |-> F(8), stage |-> F(7) ]
    /\ Score = F(60)
    /\ Len(matches) = 1

\* C24: for a company sector that, lower-cased and trimmed, is a single
\* word, the sector sub-score is never 20; a sector sub-score of 20 is
\* given only to company sectors of two or more words, since a single word
\* found in target_sectors is already an exact substring match.
C24_SingleWordNever20 ==
    Returned =>
        /\ Len(split(Sector)) = 1 => Breakdown.sector # F(20)
        /\ Breakdown.sector = F(20) => Len(split(Sector)) >= 2

\* A single word longer than three characters found in target_sectors
\* scores 30.
C24_Witness ==
    /\ Returned
    /\ Sector = "agriculture"
    /\ Len(split(Sector)) = 1
    /\ Targets = "agriculture, agritech"
    /\ Breakdown.sector = F(30)

\* A sector of two words, one of them found in target_sectors, scores 20.
C24_TwoWords ==
    /\ Returned
    /\ Len(split(Sector)) = 2
    /\ Breakdown.sector = F(20)

(***************************************************************************)
(* Properties of the scoring functions on texts, checked under TextSpec.   *)
(***************************************************************************)
\* The upper-case letter of every lower-case letter.
UpperOf == [ c \in { CharAt(LowerChars, k) : k \in 1..Len(LowerChars) } |->
             CharAt(UpperChars, CHOOSE k \in 1..Len(LowerChars) : CharAt(LowerChars, k) = c) ]

RECURSIVE upper(_)
upper(s) ==
    IF s = "" THEN ""
    ELSE (IF CharAt(s, 1) \in DOMAIN UpperOf THEN UpperOf[CharAt(s, 1)] ELSE CharAt(s, 1))
            \o upper(Tail(s))

\* The same text in another letter case or with blanks put around it, and
\* the empty text for NULL and NULL for the empty text.
Rewritings(column) ==
    IF column = None THEN { Some("") }
    ELSE LET text == Value(column)
         IN  { Some(upper(text)), Some(lower(text)), Some(" " \o text \o "\t\n"),
               Some("\n " \o text) }
                \cup (IF text = "" THEN { None } ELSE { })

CompanyTexts == { "nationality", "sector", "business_stage" }

GrantTexts == { "geographic_scope", "country", "target_sectors" }

\* C18: the four sub-scores do not change when one scored text field is
\* written in another letter case or gets blanks before or after it, and a
\* NULL text field scores exactly as the empty text does.
C18_CaseAndBlanksIgnored ==
    Returned =>
        /\ \A f \in CompanyTexts : \A text \in Rewritings(arg.company[f]) :
              _calculate_match_score([ arg.company EXCEPT ![f] = text ],
                                     arg.grant).breakdown = Breakdown
        /\ \A f \in GrantTexts : \A text \in Rewritings(arg.grant[f]) :
              _calculate_match_score(arg.company,
                                     [ arg.grant EXCEPT ![f] = text ]).breakdown = Breakdown

\* " MALI " scores the substring match on "Somalia" and the catch-all sector
\* rule, as "mali" does; the stage " Idea " scores 8.
C18_Witness ==
    /\ Returned
    /\ arg.company.nationality = Some(" MALI ")
    /\ arg.company.business_stage = Some(" Idea ")
    /\ arg.grant.country = Some("Somalia")
    /\ arg.grant.geographic_scope = None
    /\ arg.grant.target_sectors = Some("General support for all sectors")
    /\ Breakdown = [ geographic |-> F(40), sector |-> F(25),
                     amount_fit |-> F(20), stage |-> F(8) ]

\* C20: a company whose nationality is missing, empty or blanks only gets
\* the geography sub-score 40 against every grant, never 0 and never 35.
C20_BlankNationalityScores40 ==
    (Returned /\ arg.company.nationality \in { None, Some(""), Some("  ") })
        => Breakdown.geographic = F(40)

\* A nationality of blanks only against a grant for Somalia with no scope.
C20_Witness ==
    /\ Returned
    /\ arg.company.nationality = Some("  ")
    /\ arg.grant.geographic_scope = None
    /\ arg.grant.country = Some("Somalia")
    /\ Breakdown.geographic = F(40)

\* C23: the display fallback does not feed scoring.  A grant whose
\* target_sectors is NULL or the empty text is shown with target_sectors
\* 'General' in its match, but is scored on the empty text: its sector
\* sub-score is 10 for every company whose sector, lower-cased and trimmed,
\* is not empty, and 30 for a company whose sector is then empty; it is
\* never the 25 of the catch-all keywords.
C23_FallbackNotScored ==
    (Returned /\ arg.grant.target_sectors \in { None, Some("") }) =>
        /\ \A k \in 1..Len(matches) : matches[k].target_sectors = "General"
        /\ Breakdown.sector = IF Sector = "" THEN F(30) ELSE F(10)
        /\ Breakdown.sector # F(25)

\* A grant without target sectors matches an agriculture company: it is
\* shown as 'General' and its sector sub-score is 10.
C23_Witness ==
    /\ Returned
    /\ arg.grant.target_sectors = None
    /\ arg.company.sector = Some("Agriculture")
    /\ Len(matches) = 1
    /\ matches[1].target_sectors = "General"
    /\ Breakdown.sector = F(10)

(***************************************************************************)
(* Properties of find_matches, checked under Spec.                         *)
(***************************************************************************)
\* find_matches has returned to the handler.
HasResult == outcome # None /\ "matches_sorted" \in DOMAIN Value(outcome)

Result == Value(outcome).matches_sorted

\* find_matches has raised the not-found error.
ValueErrorRaised == outcome = Some([ raised |-> "ValueError" ])

\* Position of a fetched grant in the list the data provider returned.
PosInGrants(g) == CHOOSE k \in 1..Len(grants) : grants[k] = g

\* C3: no match returned by find_matches has match_score <= 30: a grant is
\* in the result only if the score computed for it is strictly above 30.
C3_AboveThreshold ==
    /\ \A k \in 1..Len(matches) : matches[k].match_score > F(30)
    /\ HasResult =>
          \A k \in 1..Len(Result) :
             /\ Result[k].match_score > F(30)
             /\ _calculate_match_score(Value(company), Result[k].grant).score > F(30)

\* Every fetched grant could have been returned, yet one was filtered out.
C3_Witness ==
    /\ HasResult
    /\ top_n >= Len(grants)
    /\ Len(Result) >= 1
    /\ Len(Result) < Len(grants)

\* C4: for the positive top_n the endpoint passes, the returned list has at
\* most top_n entries and is sorted non-increasing by match_score.
C4_TopNSorted ==
    HasResult =>
        /\ top_n >= 1
        /\ Len(Result) <= top_n
        /\ \A k \in 1..(Len(Result) - 1) :
              Result[k].match_score >= Result[k + 1].match_score

\* More matches than top_n, appended out of order, cut to top_n and sorted.
C4_Witness ==
    /\ HasResult
    /\ Len(matches) > top_n
    /\ Len(Result) = top_n
    /\ top_n >= 2
    /\ matches[1].match_score < matches[2].match_score
    /\ Result[1].match_score > Result[2].match_score

\* C5: two returned matches of equal match_score keep the relative order
\* their grants have in the collection the data provider returned.
C5_StableTies ==
    HasResult =>
        \A i \in 1..Len(Result), j \in 1..Len(Result) :
            (i < j /\ Result[i].match_score = Result[j].match_score)
               => PosInGrants(Result[i].grant) < PosInGrants(Result[j].grant)

\* Two tied matches returned after a later, better grant moved ahead of them.
C5_Witness ==
    /\ HasResult
    /\ Len(Result) = 3
    /\ Result[1].grant = grants[3]
    /\ Result[2].match_score = Result[3].match_score
    /\ Result[2].grant = grants[1]
    /\ Result[3].grant = grants[2]
    /\ \A f \in DOMAIN grants[1] \ {"id"} : grants[1][f] = grants[2][f]

\* C6: when the lookup returns and company_id resolves to no company,
\* find_matches raises ValueError at the company lookup, and the grants are
\* never queried in that invocation.
C6_UnknownCompanyNotFound ==
    /\ [][ ( /\ pc = "query_company"
             /\ pc' # "query_company"
             /\ fault' = None
             /\ company_id \notin 1..Len(db_companies) )
           => ( ValueErrorRaised' /\ pc' = "done" ) ]_vars
    /\ [](ValueErrorRaised =>
             /\ queries = << "Company" >>
             /\ grants = << >>
             /\ idx = 0
             /\ matches = << >>)

\* The lookup failed while the grants table held rows, none of them read.
C6_Witness ==
    /\ ValueErrorRaised
    /\ pc = "done"
    /\ Len(db_grants) >= 2
    /\ queries = << "Company" >>

(***************************************************************************)
(* Properties of the match endpoint, checked under Spec.                   *)
(***************************************************************************)
Responded == pc = "responded"

Response == Value(response)

\* The messages get_ai_recommendation returns in place of a generated text.
FallbackMessages ==
    { KeyMissingMessage, QuotaMessage, ModelMissingMessage }
       \cup { UnavailableMessage(g.raised) : g \in { x \in GenerateContent : Raises(x) } }

\* The generator was called and gave no generated text.
GeneratorFailedOrDisabled == ai_log # << >> /\ ai_log[Len(ai_log)] # "generated"

\* The response carries the list find_matches returned, entry by entry.
CarriesResult ==
    /\ Response.status = 200
    /\ Len(Response.matches) = Len(Result)
    /\ \A k \in 1..Len(Result) :
          /\ Response.matches[k].grant_details = Result[k].grant
          /\ \A f \in DOMAIN Result[k] \ {"grant"} : Response.matches[k][f] = Result[k][f]

C13_ProviderFailurePropagates ==
    fault # None =>
        /\ outcome = Some(Raise(Value(fault)))
        /\ pc \in {"done", "responded"}
        /\ queries \in { << "Company" >>, << "Company", "Grant" >> }
        /\ matches = << >>

\* The grants query failed after the company was found.
C13_Witness ==
    /\ fault = Some("InterfaceError")
    /\ company # None
    /\ queries = << "Company", "Grant" >>
    /\ Len(db_grants) >= 1
    /\ outcome = Some(Raise("InterfaceError"))

\* C14: matching writes nothing: no step of a match request changes a
\* company or a grant or adds or removes a row, and what find_matches
\* fetched stays equal to the stored rows.
C14_MatchingMutatesNothing ==
    /\ [][ request' # request => db' = db ]_vars
    /\ [](company # None => Value(company) = db_companies[company_id])
    /\ [](\A k \in 1..Len(grants) : grants[k] = db_grants[k])
    /\ [](HasResult => \A k \in 1..Len(Result) :
                          Result[k].grant = db_grants[Result[k].grant.id])

\* find_matches returned two matches and the stored grants are those it read.
C14_Witness ==
    /\ pc = "done" /\ HasResult
    /\ Len(Result) = 2
    /\ grants = db_grants
    /\ Value(company) = db_companies[company_id]

\* C16: the endpoint answers an unknown company id with 404, after a single
\* company lookup and without calling the recommendation generator; any
\* other exception of find_matches is answered with 500, never with 404
\* and never with an empty match list.
C16_NotFoundIs404OtherIs500 ==
    (Responded /\ ~HasResult) =>
        /\ ValueErrorRaised =>
              /\ Response.status = 404
              /\ queries = << "Company" >>
              /\ ai_log = << >>
        /\ ~ValueErrorRaised =>
              /\ Response.status = 500
              /\ "matches" \notin DOMAIN Response

\* A company is stored, the id asked for is not, and the answer is 404.
C16_Witness ==
    /\ Responded
    /\ ValueErrorRaised
    /\ Len(db_companies) = MaxCompanies
    /\ Len(db_grants) >= 1
    /\ Response.status = 404
    /\ ai_log = << >>

\* The fetched grants whose score for the fetched company is above 30.
Qualifying ==
    { k \in 1..Len(grants) :
         _calculate_match_score(Value(company), grants[k]).score > F(30) }

\* The positions, in the fetched list, of the grants of the result.
Returned_positions == { PosInGrants(Result[k].grant) : k \in 1..Len(Result) }

\* C17: the list find_matches returns is the top of the qualifying set: it
\* has exactly min(top_n, k) entries, k being the number of fetched grants
\* that score above 30; no grant is in it twice; and every qualifying grant
\* left out scores no more than each entry of the result.
C17_TopOfQualifying ==
    (pc = "done" /\ HasResult) =>
        LET score == [ k \in 1..Len(grants) |->
                          _calculate_match_score(Value(company), grants[k]).score ]
            qualifying == { k \in 1..Len(grants) : score[k] > F(30) }
            returned == Returned_positions
        IN  /\ Len(Result) = min(top_n, Cardinality(qualifying))
            /\ Cardinality(returned) = Len(Result)
            /\ returned \subseteq qualifying
            /\ \A q \in qualifying \ returned, k \in 1..Len(Result) :
                  round1(score[q]) <= Result[k].match_score

\* Three grants qualify, two are asked for, and the one left out scores
\* strictly less than both that are returned.
C17_Witness ==
    /\ HasResult
    /\ top_n = 2
    /\ Cardinality(Qualifying) = 3
    /\ Len(Result) = 2
    /\ \A q \in Qualifying \ Returned_positions :
          round1(_calculate_match_score(Value(company), grants[q]).score)
             < Result[2].match_score

\* A displayed text: the column, or the fallback when it is NULL or empty.
Shown(column, fallback) ==
    IF column = None \/ column = Some("") THEN fallback ELSE Value(column)

\* The display fields of the match m, by the rule of the claim.
DisplayFieldsRule(m) ==
    /\ m.program_name = Shown(m.grant.program_name, "Unknown Program")
    /\ m.institution = Shown(m.grant.institution_name, "Unknown Institution")
    /\ m.country = Shown(m.grant.country, "Unknown")
    /\ m.funding_amount =
          IF m.grant.estimated_value_amount \in { None, Some(Num(0)) } THEN Num(0)
          ELSE Value(m.grant.estimated_value_amount)
    /\ m.target_sectors = Shown(m.grant.target_sectors, "General")
    /\ m.website = Shown(m.grant.website_url, "Not available")
    /\ m.data_source_url = Shown(m.grant.data_source_url, "Not available")
    /\ m.repayment_required =
          CASE m.grant.repayment_required = None -> "Unknown"
            [] m.grant.repayment_required = Some(FALSE) -> "False"
            [] m.grant.repayment_required = Some(TRUE) -> "True"

\* C19: every match carries the display fields of its grant, each replaced
\* by its literal fallback when empty or missing: 'Unknown Program',
\* 'Unknown Institution', 'Unknown', 0, 'General', 'Not available' twice;
\* repayment_required is 'Unknown' only for a NULL flag and is otherwise
\* the text of the boolean, 'False' for false.
C19_DisplayFallbacks ==
    /\ \A k \in 1..Len(matches) : DisplayFieldsRule(matches[k])
    /\ HasResult => \A k \in 1..Len(Result) : DisplayFieldsRule(Result[k])

\* One result with a loaded grant that shows every fallback of a nullable
\* column, and a created grant with an empty institution and a true flag.
C19_Witness ==
    /\ HasResult
    /\ \E i \in 1..Len(Result), j \in 1..Len(Result) :
          /\ Result[i].repayment_required = "Unknown"
          /\ Result[i].country = "Unknown"
          /\ Result[i].funding_amount = Num(0)
          /\ Result[i].target_sectors = "General"
          /\ Result[i].website = "Not available"
          /\ Result[i].data_source_url = "Not available"
          /\ Result[j].institution = "Unknown Institution"
          /\ Result[j].repayment_required = "True"
          /\ Result[j].website = "https://kcb.co.ke"

\* C22: in a 200 response, total_matches_found is the number of matches
\* returned, so at most top_n, whatever the number of grants that scored
\* above the threshold; and when find_matches returns no match the response
\* is 200 with an empty match list, total_matches_found 0 and the message
\* 'No suitable matches found with score > 30.', and the recommendation
\* generator has not been invoked.
C22_TotalIsReturnedCount ==
    Responded =>
        /\ Response.status = 200 =>
              /\ Response.total_matches_found = Len(Response.matches)
              /\ Response.total_matches_found <= top_n
              /\ Response.total_matches_found = Len(Result)
        /\ (HasResult /\ Result = << >>) =>
              /\ Response.status = 200
              /\ Response.matches = << >>
              /\ Response.total_matches_found = 0
              /\ Response.ai_recommendation =
                    Some("No suitable matches found with score > 30.")
              /\ ai_log = << >>

\* Three grants score above the threshold, two are asked for, and the
\* response counts two.
C22_Witness ==
    /\ Responded
    /\ Response.status = 200
    /\ top_n = 2
    /\ Cardinality(Qualifying) = 3
    /\ Len(Response.matches) = 2
    /\ Response.total_matches_found = 2
    /\ Len(ai_log) = 1

\* No fetched grant qualifies for the fetched company, and the response is
\* the empty one.
C22_NoneQualifies ==
    /\ Responded
    /\ HasResult
    /\ Len(grants) >= 1
    /\ Qualifying = {}
    /\ Response.status = 200
    /\ Response.total_matches_found = 0

(***************************************************************************)
(* Properties of concurrent invocations, checked under ConcSpec.           *)
(***************************************************************************)
Other == Value(suspended)

\* C15: matching is deterministic and insensitive to interleaving: each of
\* two find_matches invocations with the same company id and top_n over an
\* unchanged store, run one after the other or interleaved step by step,
\* ends with what a single invocation run alone gives, the same ordered
\* list for both.
C15_SameAsIsolated ==
    /\ pc = "done" => outcome = Some(find_matches(company_id, top_n))
    /\ Other.pc = "done" => Other.outcome = Some(find_matches(Other.company_id, Other.top_n))
    /\ (pc = "done" /\ Other.pc = "done") => outcome = Other.outcome

\* One invocation has returned two matches, sorted into another order than
\* they were appended in, while the other one is still in the middle of its
\* loop.
C15_Witness ==
    /\ pc = "done" /\ HasResult
    /\ Len(Result) = 2
    /\ Result[1].match_score > Result[2].match_score
    /\ Result[1].grant = grants[2]
    /\ Other.pc = "loop"
    /\ Other.idx = 2
    /\ Len(Other.matches) = 1
    /\ Other.company_id = company_id /\ Other.top_n = top_n

====
